---- MODULE Spec2Model ----
(***************************************************************************)
(* Model of addon-metadata-operator:                                       *)
(*   - pkg/extractor  MainExtractor (ExtractBundles, ExtractAllBundles,    *)
(*                    extractBundlesConcurrent, validateIndexImage)        *)
(*   - cmd/mtcli/validate  generateFilter and run                          *)
(* One specification per engine: Spec (extractor), FilterSpec, RunSpec.    *)
(***************************************************************************)
EXTENDS Integers, Sequences, FiniteSets, TLC

(***************************************************************************)
(* Bounds                                                                  *)
(***************************************************************************)
\* longest index-image reference, counted in lexemes
MaxImageLen == 5
\* most bundle-image references the index reader returns
MaxBundles == 3

\* most items of a --disabled, --enabled or --stages list
MaxItems == 2
\* number of registered validators
NumValidators == 3
\* longest attribute value list of a rule, and longest Args of a filter
MaxArgs == 3
\* most Filters of a RuleFilter
MaxFilters == 2
\* most bundles of a MetaBundle given to CSVDeployment.Run
MaxBundleList == 3
\* most bundles of a MetaBundle given to OperatorName.Run
MaxOperatorBundles == 2

SeqsUpTo(S, n) == UNION {[1..k -> S] : k \in 0..n}

Min(S) == CHOOSE x \in S : \A y \in S : x <= y

(***************************************************************************)
(* Values of the extractor                                                 *)
(***************************************************************************)
\* An image reference is a sequence of lexemes: "a" stands for a run of
\* name characters, "/" and ":" for themselves.
Chars == {"a", "/", ":"}
Images == SeqsUpTo(Chars, MaxImageLen)
PkgNames == {"", "pkg"}
\* bundle-image references the index reader can return
Refs == {"x", "y", "z"}
RefLists == SeqsUpTo(Refs, MaxBundles)

\* Go error values: kind, and the fetch unit that produced it (0: none)
NoErr == [kind |-> "nil", unit |-> 0]
ErrEmptyIndexImage == [kind |-> "invalid empty indexImage", unit |-> 0]
ErrTaglessImage == [kind |-> "indexImage is tagless", unit |-> 0]
ErrParseImage == [kind |-> "can't parse indexImage", unit |-> 0]
ErrEmptyPkgName == [kind |-> "invalid empty pkgName", unit |-> 0]
ErrIndex == [kind |-> "index reader failed", unit |-> 0]
ErrFetch(i) == [kind |-> "bundle fetch failed", unit |-> i]

\* *registry.Bundle values: the nil pointer and the bundle of a reference
NilBundle == <<>>
BundleOf(ref) == <<"bundle", ref>>

\* []*registry.Bundle values: the nil slice and a made slice
NilSlice == [isNil |-> TRUE, items |-> <<>>]
Slice(s) == [isNil |-> FALSE, items |-> s]

NoRet == [set |-> FALSE, bundles |-> NilSlice, err |-> NoErr]
Ret(b, e) == [set |-> TRUE, bundles |-> b, err |-> e]

VARIABLES
  pc,           \* position of the extractor call: idle, spawn, wait, returned
  op,           \* entry point called: ExtractBundles or ExtractAllBundles
  indexImage,   \* the indexImage argument
  bundleImages, \* what the index reader returned
  spawned,      \* number of g.Go calls made so far
  unit,         \* per fetch unit: running, ok, err
  res,          \* the pre-sized output slice
  gErr,         \* the errgroup's first error
  cancelled,    \* whether the shared context is cancelled
  ret,          \* the value returned to the caller
  indexCalls,   \* invocations of the index reader
  fetchCalls,   \* invocations of e.Bundle.Extract
  writeLog      \* writes to res, in the order they happened

extractVars == <<pc, op, indexImage, bundleImages, spawned, unit, res, gErr,
                 cancelled, ret, indexCalls, fetchCalls, writeLog>>

VARIABLES
  fpc,          \* position of the generateFilter call: idle, done
  fDisabled,    \* the disabled argument
  fEnabled,     \* the enabled argument
  fStages,      \* the stages argument
  fRet          \* the (filter, error) pair returned

filterVars == <<fpc, fDisabled, fEnabled, fStages, fRet>>

VARIABLES
  rpc,          \* position of the validate command: idle, draining, done
  runStarted,   \* whether runner.Run was started
  selected,     \* the validators the runner launched
  launched,     \* the launched validators that have not published yet
  results,      \* the ResultList of the command
  tableFailed,  \* whether cli.NewTable returned an error
  cleanUps,     \* invocations of runner.CleanUp
  cleanUpFailed,\* whether runner.CleanUp returned an error
  outcome       \* the error returned by the command

runVars == <<rpc, runStarted, selected, launched, results, tableFailed,
             cleanUps, cleanUpFailed, outcome>>

VARIABLES
  qpc,          \* position of the rule-filter call: idle, evaluated, ran
  qRuleArgs,    \* the ruleArgs argument of eval
  qParams,      \* the FilterParams argument of eval
  qEval,        \* what eval returned
  qRule,        \* the rule RuleFilter.Run was called with
  qFilters,     \* the Filters of the RuleFilter
  qRun          \* what RuleFilter.Run returned

ruleVars == <<qpc, qRuleArgs, qParams, qEval, qRule, qFilters, qRun>>

VARIABLES
  vpc,          \* position of the validator call: idle, selected, deployments,
                \* operatorName
  vBundles,     \* mb.Bundles of the call
  vLatest,      \* what getLatestBundle returned
  vOperator,    \* mb.AddonMeta.OperatorName and the bundles of OperatorName.Run
  vResult       \* the validator.Result of Run

validatorVars == <<vpc, vBundles, vLatest, vOperator, vResult>>

vars == <<extractVars, filterVars, runVars, ruleVars, validatorVars>>

(***************************************************************************)
(* validateIndexImage / isTaglessImage                                     *)
(***************************************************************************)
\* strings.SplitN(s, sep, 2): cut at the first separator, if there is one
SplitN2(s, sep) ==
  LET idx == {i \in 1..Len(s) : s[i] = sep} IN
  IF idx = {} THEN <<s>>
  ELSE LET k == Min(idx) IN <<SubSeq(s, 1, k - 1), SubSeq(s, k + 1, Len(s))>>

isTaglessImage(image) ==
  LET parts == SplitN2(image, ":") IN
  IF Len(parts) < 2 THEN ErrTaglessImage ELSE NoErr

\* The reference grammar of imageparser.Parse (docker references):
\* [host[:port]/]name[/name...][:tag]
RECURSIVE IsPath(_)
IsPath(s) ==
  \/ s = <<"a">>
  \/ Len(s) >= 3 /\ s[1] = "a" /\ s[2] = "/" /\ IsPath(SubSeq(s, 3, Len(s)))

\* a well-formed reference without a tag
WellFormedTagless(s) ==
  \/ IsPath(s)
  \/ /\ Len(s) >= 5
     /\ SubSeq(s, 1, 4) = <<"a", ":", "a", "/">>
     /\ IsPath(SubSeq(s, 5, Len(s)))

\* a well-formed reference with a tag
WellFormedTagged(s) ==
  /\ Len(s) >= 3
  /\ SubSeq(s, Len(s) - 1, Len(s)) = <<":", "a">>
  /\ WellFormedTagless(SubSeq(s, 1, Len(s) - 2))

\* imageparser.Parse(indexImage): the error, if any
ParseImage(image) ==
  IF WellFormedTagless(image) \/ WellFormedTagged(image) THEN NoErr
  ELSE ErrParseImage

\* variant: the empty reference is not rejected first
validateIndexImageNoEmptyCheck(image) ==
  IF isTaglessImage(image) # NoErr THEN isTaglessImage(image)
  ELSE IF ParseImage(image) # NoErr THEN ParseImage(image)
  ELSE NoErr

validateIndexImage(image) ==
  IF image = <<>> THEN ErrEmptyIndexImage
  ELSE IF isTaglessImage(image) # NoErr THEN isTaglessImage(image)
  ELSE IF ParseImage(image) # NoErr THEN ParseImage(image)
  ELSE NoErr

(***************************************************************************)
(* The collaborators: index reader and bundle fetcher                      *)
(***************************************************************************)
\* e.Index.ExtractBundleImages / ExtractAllBundleImages: an ordered list of
\* bundle-image references, or an error
IndexResults ==
  {[err |-> ErrIndex, images |-> <<>>]} \cup
  {[err |-> NoErr, images |-> l] : l \in RefLists}

\* e.Bundle.Extract(ctx, bundleImage) of fetch unit i: the bundle of the
\* reference, or an error
Extract(ref, i, fails) ==
  IF fails THEN [bundle |-> NilBundle, err |-> ErrFetch(i)]
  ELSE [bundle |-> BundleOf(ref), err |-> NoErr]

(***************************************************************************)
(* extractBundlesConcurrent                                                *)
(***************************************************************************)
\* res := make([]*registry.Bundle, len(bundleImages))
MakeRes(images) == [i \in 1..Len(images) |-> NilBundle]

\* variant: the bundle goes to the next free slot, in completion order
StoreResultInCompletionOrder(r, i, bundle) ==
  LET free == {s \in DOMAIN r : r[s] = NilBundle} IN
  IF free = {} THEN r ELSE [r EXCEPT ![Min(free)] = bundle]

\* variant: the closure shares the loop variable, every unit writes the
\* last slot
StoreResultSharedIndex(r, i, bundle) == [r EXCEPT ![Len(r)] = bundle]

\* res[i] = bundle
StoreResult(r, i, bundle) == [r EXCEPT ![i] = bundle]

\* errgroup.Group keeps the first non-nil error returned by a unit
GroupDone(first, err) == IF first = NoErr /\ err # NoErr THEN err ELSE first

\* variant: the slice is returned along with the error
WaitReturnPartial(r, err) ==
  IF err # NoErr THEN Ret(Slice(r), err) ELSE Ret(Slice(r), NoErr)

\* if err := g.Wait(); err != nil { return nil, err }; return res, nil
WaitReturn(r, err) ==
  IF err # NoErr THEN Ret(NilSlice, err) ELSE Ret(Slice(r), NoErr)

\* the return of an entry point that ends before any fetch
ReturnEarly(name, image, r) ==
  /\ pc' = "returned"
  /\ op' = name
  /\ indexImage' = image
  /\ ret' = r
  /\ UNCHANGED <<bundleImages, spawned, unit, res, gErr, cancelled,
                 fetchCalls, writeLog>>

\* the entry into extractBundlesConcurrent: make res, new group, new context
StartConcurrent(name, image, images) ==
  /\ pc' = "fetching"
  /\ op' = name
  /\ indexImage' = image
  /\ bundleImages' = images
  /\ spawned' = 0
  /\ unit' = [i \in 1..Len(images) |-> "idle"]
  /\ res' = MakeRes(images)
  /\ gErr' = NoErr
  /\ cancelled' = FALSE
  /\ UNCHANGED <<ret, fetchCalls, writeLog>>

\* the result of a failed validateIndexImage
ValidationReturn(verr) ==
  IF verr = ErrTaglessImage THEN Ret(NilSlice, NoErr) ELSE Ret(NilSlice, verr)

ExtractBundles ==
  /\ pc = "idle"
  /\ \E image \in Images, pkgName \in PkgNames, idx \in IndexResults :
       LET verr == validateIndexImage(image) IN
       IF verr # NoErr
       THEN /\ ReturnEarly("ExtractBundles", image, ValidationReturn(verr))
            /\ UNCHANGED indexCalls
       ELSE IF pkgName = ""
       THEN /\ ReturnEarly("ExtractBundles", image,
                           Ret(NilSlice, ErrEmptyPkgName))
            /\ UNCHANGED indexCalls
       ELSE /\ indexCalls' = indexCalls + 1
            /\ IF idx.err # NoErr
               THEN ReturnEarly("ExtractBundles", image,
                                Ret(NilSlice, idx.err))
               ELSE StartConcurrent("ExtractBundles", image, idx.images)
  /\ UNCHANGED <<filterVars, runVars, ruleVars, validatorVars>>

ExtractAllBundles ==
  /\ pc = "idle"
  /\ \E image \in Images, idx \in IndexResults :
       LET verr == validateIndexImage(image) IN
       IF verr # NoErr
       THEN /\ ReturnEarly("ExtractAllBundles", image, ValidationReturn(verr))
            /\ UNCHANGED indexCalls
       ELSE /\ indexCalls' = indexCalls + 1
            /\ IF idx.err # NoErr
               THEN ReturnEarly("ExtractAllBundles", image,
                                Ret(NilSlice, idx.err))
               ELSE StartConcurrent("ExtractAllBundles", image, idx.images)
  /\ UNCHANGED <<filterVars, runVars, ruleVars, validatorVars>>

\* g.Go(func() error {...}): the loop starts the next fetch unit
Spawn ==
  /\ pc = "fetching"
  /\ spawned < Len(bundleImages)
  /\ spawned' = spawned + 1
  /\ unit' = [unit EXCEPT ![spawned + 1] = "running"]
  /\ fetchCalls' = fetchCalls + 1
  /\ UNCHANGED <<pc, op, indexImage, bundleImages, res, gErr, cancelled, ret,
                 indexCalls, writeLog>>
  /\ UNCHANGED <<filterVars, runVars, ruleVars, validatorVars>>

\* fetch unit i: Extract returns, the unit stores the bundle in res when
\* there is no error, and hands its error to the group
UnitDone(i) ==
  /\ pc = "fetching"
  /\ unit[i] = "running"
  /\ \E fails \in BOOLEAN :
       LET out == Extract(bundleImages[i], i, fails)
           newRes == IF out.err = NoErr THEN StoreResult(res, i, out.bundle)
                     ELSE res
           written == {s \in DOMAIN res : newRes[s] # res[s]}
       IN /\ res' = newRes
          /\ writeLog' = IF written = {} THEN writeLog
                         ELSE Append(writeLog,
                                     [unit |-> i, slots |-> written])
          /\ unit' = [unit EXCEPT ![i] = IF out.err = NoErr THEN "ok"
                                         ELSE "err"]
          /\ gErr' = GroupDone(gErr, out.err)
  /\ UNCHANGED <<pc, op, indexImage, bundleImages, spawned, cancelled, ret,
                 indexCalls, fetchCalls>>
  /\ UNCHANGED <<filterVars, runVars, ruleVars, validatorVars>>

\* g.Wait() returns once every unit has returned; cancel() runs on the error
\* path and, deferred, on every return
Wait ==
  /\ pc = "fetching"
  /\ spawned = Len(bundleImages)
  /\ \A i \in DOMAIN unit : unit[i] \in {"ok", "err"}
  /\ ret' = WaitReturn(res, gErr)
  /\ cancelled' = TRUE
  /\ pc' = "returned"
  /\ UNCHANGED <<op, indexImage, bundleImages, spawned, unit, res, gErr,
                 indexCalls, fetchCalls, writeLog>>
  /\ UNCHANGED <<filterVars, runVars, ruleVars, validatorVars>>

(***************************************************************************)
(* Filter algebra (pkg/validator) and the --disabled/--enabled/--stages    *)
(* lists                                                                   *)
(***************************************************************************)
\* A list argument is the sequence of items strings.Split(arg, ",") yields;
\* the empty string is the single empty item.
EmptyStr == <<"">>
CodeItems == {"AM0001", "AM0002", "AM1"}
StageItems == {"pre-release", "post-release", "bogus"}
ListStrs(items) == {EmptyStr} \cup (SeqsUpTo(items, MaxItems) \ {<<>>})

Stages == {"pre-release", "post-release"}
StageOf(c) == IF c % 2 = 1 THEN "pre-release" ELSE "post-release"
\* the validators of the registry, by descriptor
Registered == {[code |-> c, stage |-> StageOf(c)] : c \in 1..NumValidators}

\* validator.ParseCode: the canonical rendering is the prefix and four digits
ParseCode(item) ==
  IF item = "AM0001" THEN [ok |-> TRUE, code |-> 1]
  ELSE IF item = "AM0002" THEN [ok |-> TRUE, code |-> 2]
  ELSE [ok |-> FALSE, code |-> 0]

\* validator.ParseStage: the enumeration is closed
ParseStage(item) ==
  IF item \in Stages THEN [ok |-> TRUE, stage |-> item]
  ELSE [ok |-> FALSE, stage |-> ""]

NilFilter == [kind |-> "nil"]
NoFilter == [kind |-> "NoFilter"]
FilterCodes(codes) == [kind |-> "FilterCodes", codes |-> codes]
FilterStages(stages) == [kind |-> "FilterStages", stages |-> stages]
Not(f) == [kind |-> "Not", f |-> f]
And(f1, f2) == [kind |-> "And", f1 |-> f1, f2 |-> f2]

\* whether filter f accepts the validator with descriptor v
RECURSIVE Accepts(_, _)
Accepts(f, v) ==
  CASE f.kind = "nil" -> TRUE
    [] f.kind = "NoFilter" -> TRUE
    [] f.kind = "FilterCodes" -> \E i \in DOMAIN f.codes : f.codes[i] = v.code
    [] f.kind = "FilterStages" ->
         \E i \in DOMAIN f.stages : f.stages[i] = v.stage
    [] f.kind = "Not" -> ~Accepts(f.f, v)
    [] f.kind = "And" -> Accepts(f.f1, v) /\ Accepts(f.f2, v)

(***************************************************************************)
(* generateFilter                                                          *)
(***************************************************************************)
ErrDisabledOption == [kind |-> "unable to process '--disabled'", unit |-> 0]
ErrEnabledOption == [kind |-> "unable to process '--enabled'", unit |-> 0]
ErrStagesOption == [kind |-> "unable to process '--stages'", unit |-> 0]

parseCodeList(maybeList) ==
  IF \E i \in DOMAIN maybeList : ~ParseCode(maybeList[i]).ok
  THEN [ok |-> FALSE, codes |-> <<>>]
  ELSE [ok |-> TRUE,
        codes |-> [i \in DOMAIN maybeList |-> ParseCode(maybeList[i]).code]]

parseStageList(maybeList) ==
  IF \E i \in DOMAIN maybeList : ~ParseStage(maybeList[i]).ok
  THEN [ok |-> FALSE, stages |-> <<>>]
  ELSE [ok |-> TRUE,
        stages |-> [i \in DOMAIN maybeList |-> ParseStage(maybeList[i]).stage]]

FRet(f, e) == [filter |-> f, err |-> e]

\* variant: the enable-list is handled before the disable-list, so the
\* disable-list is the last writer
generateFilterDisabledLast(disabled, enabled, stages) ==
  IF disabled = EmptyStr /\ enabled = EmptyStr /\ stages = EmptyStr
  THEN FRet(NilFilter, NoErr)
  ELSE
    LET dl == parseCodeList(disabled)
        el == parseCodeList(enabled)
        sl == parseStageList(stages)
        f1 == IF enabled # EmptyStr THEN FilterCodes(el.codes) ELSE NoFilter
        f2 == IF disabled # EmptyStr THEN Not(FilterCodes(dl.codes)) ELSE f1
        f3 == IF stages # EmptyStr THEN And(f2, FilterStages(sl.stages))
              ELSE f2
    IN IF disabled # EmptyStr /\ ~dl.ok THEN FRet(NilFilter, ErrDisabledOption)
       ELSE IF enabled # EmptyStr /\ ~el.ok
       THEN FRet(NilFilter, ErrEnabledOption)
       ELSE IF stages # EmptyStr /\ ~sl.ok
       THEN FRet(NilFilter, ErrStagesOption)
       ELSE FRet(f3, NoErr)

\* variant: the stage filter replaces the code-based filter
generateFilterStagesOnly(disabled, enabled, stages) ==
  IF disabled = EmptyStr /\ enabled = EmptyStr /\ stages = EmptyStr
  THEN FRet(NilFilter, NoErr)
  ELSE
    LET dl == parseCodeList(disabled)
        el == parseCodeList(enabled)
        sl == parseStageList(stages)
        f1 == IF disabled # EmptyStr THEN Not(FilterCodes(dl.codes))
              ELSE NoFilter
        f2 == IF enabled # EmptyStr THEN FilterCodes(el.codes) ELSE f1
        f3 == IF stages # EmptyStr THEN FilterStages(sl.stages) ELSE f2
    IN IF disabled # EmptyStr /\ ~dl.ok THEN FRet(NilFilter, ErrDisabledOption)
       ELSE IF enabled # EmptyStr /\ ~el.ok
       THEN FRet(NilFilter, ErrEnabledOption)
       ELSE IF stages # EmptyStr /\ ~sl.ok
       THEN FRet(NilFilter, ErrStagesOption)
       ELSE FRet(f3, NoErr)

generateFilter(disabled, enabled, stages) ==
  IF disabled = EmptyStr /\ enabled = EmptyStr /\ stages = EmptyStr
  THEN FRet(NilFilter, NoErr)
  ELSE
    LET dl == parseCodeList(disabled)
        el == parseCodeList(enabled)
        sl == parseStageList(stages)
        f1 == IF disabled # EmptyStr THEN Not(FilterCodes(dl.codes))
              ELSE NoFilter
        f2 == IF enabled # EmptyStr THEN FilterCodes(el.codes) ELSE f1
        f3 == IF stages # EmptyStr THEN And(f2, FilterStages(sl.stages))
              ELSE f2
    IN IF disabled # EmptyStr /\ ~dl.ok THEN FRet(NilFilter, ErrDisabledOption)
       ELSE IF enabled # EmptyStr /\ ~el.ok
       THEN FRet(NilFilter, ErrEnabledOption)
       ELSE IF stages # EmptyStr /\ ~sl.ok
       THEN FRet(NilFilter, ErrStagesOption)
       ELSE FRet(f3, NoErr)

\* a call of generateFilter
GenerateFilter ==
  /\ fpc = "idle"
  /\ \E disabled \in ListStrs(CodeItems), enabled \in ListStrs(CodeItems),
        stages \in ListStrs(StageItems) :
       /\ fDisabled' = disabled
       /\ fEnabled' = enabled
       /\ fStages' = stages
       /\ fRet' = generateFilter(disabled, enabled, stages)
  /\ fpc' = "done"
  /\ UNCHANGED <<extractVars, runVars, ruleVars, validatorVars>>

(***************************************************************************)
(* Result model (pkg/validator) and the validate command                   *)
(***************************************************************************)
Statuses == {"Success", "Failure", "Error"}

\* ResultList.Errors(): the Error results, order preserved
Errors(rs) == SelectSeq(rs, LAMBDA r : r.status = "Error")

\* ResultList.HasFailure(): any Failure present
HasFailure(rs) == \E i \in DOMAIN rs : rs[i].status = "Failure"

\* sort.Sort(results): by Code ascending; codes are unique in the registry
SortByCode(rs) ==
  [k \in DOMAIN rs |->
     CHOOSE r \in {rs[i] : i \in DOMAIN rs} :
       Cardinality({j \in DOMAIN rs : rs[j].code < r.code}) = k - 1]

ErrValidationFailed == [kind |-> "validation failed", unit |-> 0]
ErrValidationErrored == [kind |-> "validators encountered errors", unit |-> 0]
ErrInitTable == [kind |-> "initializing table", unit |-> 0]
ErrCleanUp == [kind |-> "cleaning up validators", unit |-> 0]
ErrGeneratingFilter == [kind |-> "generating validator filter", unit |-> 0]
\* the steps of run that come before generateFilter, and NewRunner after it
EarlyErrors ==
  {[kind |-> k, unit |-> 0] :
     k \in {"verifying flags", "parsing addon dir", "verifying addon dir",
            "loading addon metadata",
            "extracting and parsing addon bundles"}}
ErrInitValidators == [kind |-> "initializing validators", unit |-> 0]

\* variant: failures are looked at before errors
ExitErrorFailureFirst(rs) ==
  IF HasFailure(rs) THEN ErrValidationFailed
  ELSE IF Len(Errors(rs)) > 0 THEN ErrValidationErrored
  ELSE NoErr

\* the last part of run: the error for the collected results
ExitError(rs) ==
  IF Len(Errors(rs)) > 0 THEN ErrValidationErrored
  ELSE IF HasFailure(rs) THEN ErrValidationFailed
  ELSE NoErr

\* run, up to the call of runner.Run: every step before it can fail and
\* return; the runner launches one unit per validator the filter accepts
RunStart ==
  /\ rpc = "idle"
  /\ \E early \in EarlyErrors \cup {NoErr},
        disabled \in ListStrs(CodeItems), enabled \in ListStrs(CodeItems),
        stages \in ListStrs(StageItems), runnerOk \in BOOLEAN :
       LET f == generateFilter(disabled, enabled, stages) IN
       IF early # NoErr \/ f.err # NoErr \/ ~runnerOk
       THEN /\ rpc' = "done"
            /\ outcome' = IF early # NoErr THEN early
                          ELSE IF f.err # NoErr THEN ErrGeneratingFilter
                          ELSE ErrInitValidators
            /\ UNCHANGED <<runStarted, selected, launched>>
       ELSE /\ rpc' = "draining"
            /\ runStarted' = TRUE
            /\ selected' = {v \in Registered : Accepts(f.filter, v)}
            /\ launched' = {v \in Registered : Accepts(f.filter, v)}
            /\ UNCHANGED outcome
  /\ UNCHANGED <<results, tableFailed, cleanUps, cleanUpFailed>>
  /\ UNCHANGED <<extractVars, filterVars, ruleVars, validatorVars>>

\* for res := range runner.Run(...): a launched validator publishes its one
\* Result and the loop appends it
RecvResult(v) ==
  /\ rpc = "draining"
  /\ v \in launched
  /\ \E st \in Statuses :
       results' = Append(results, [code |-> v.code, status |-> st])
  /\ launched' = launched \ {v}
  /\ UNCHANGED <<rpc, runStarted, selected, tableFailed, cleanUps,
                 cleanUpFailed, outcome>>
  /\ UNCHANGED <<extractVars, filterVars, ruleVars, validatorVars>>

\* the stream is closed: sort, render the table, clean up, and return
RunFinish ==
  /\ rpc = "draining"
  /\ launched = {}
  /\ \E tableErr \in BOOLEAN, cleanUpErr \in BOOLEAN :
       /\ results' = SortByCode(results)
       /\ tableFailed' = tableErr
       /\ IF tableErr
          THEN /\ outcome' = ErrInitTable
               /\ UNCHANGED <<cleanUps, cleanUpFailed>>
          ELSE /\ cleanUps' = cleanUps + 1
               /\ cleanUpFailed' = cleanUpErr
               /\ outcome' = IF cleanUpErr THEN ErrCleanUp
                             ELSE ExitError(SortByCode(results))
  /\ rpc' = "done"
  /\ UNCHANGED <<runStarted, selected, launched>>
  /\ UNCHANGED <<extractVars, filterVars, ruleVars, validatorVars>>

(***************************************************************************)
(* Rule-filter DSL (pkg/types/csv_rbac.go)                                 *)
(***************************************************************************)
\* the strings of rule attributes and filter Args, in sort.Strings order
ItemOrder == <<"a", "b", "c">>
Items == {ItemOrder[i] : i \in DOMAIN ItemOrder}
Rank(x) == CHOOSE i \in DOMAIN ItemOrder : ItemOrder[i] = x
ArgLists == SeqsUpTo(Items, MaxArgs)

Operators ==
  {"IN", "NOT_IN", "EQUAL", "NOT_EQUAL", "EXISTS", "DOES_NOT_EXIST", "ANY"}
\* Operator is a string type: a value outside the enumeration
OtherOperator == "OTHER"

FilterParams(args, operatorName) ==
  [Args |-> args, OperatorName |-> operatorName]

sliceToSet(items) == {items[i] : i \in DOMAIN items}

\* variant: the direction is reversed, every item must be one to be present
includesReversed(items, itemsToBePresent) ==
  LET presentMap == sliceToSet(itemsToBePresent) IN
  \A i \in DOMAIN items : items[i] \in presentMap

includes(items, itemsToBePresent) ==
  LET itemsMap == sliceToSet(items) IN
  \A i \in DOMAIN itemsToBePresent : itemsToBePresent[i] \in itemsMap

\* sort.Strings: insertion of x into the sorted sequence s
RECURSIVE InsertSorted(_, _)
InsertSorted(x, s) ==
  IF s = <<>> THEN <<x>>
  ELSE IF Rank(x) <= Rank(Head(s)) THEN <<x>> \o s
  ELSE <<Head(s)>> \o InsertSorted(x, Tail(s))

RECURSIVE SortStrings(_)
SortStrings(s) ==
  IF s = <<>> THEN <<>> ELSE InsertSorted(Head(s), SortStrings(Tail(s)))

\* variant: the copies are compared without being sorted
equalUnsorted(a, b) ==
  IF Len(a) # Len(b) THEN FALSE
  ELSE \A index \in DOMAIN a : a[index] = b[index]

equal(a, b) ==
  IF Len(a) # Len(b) THEN FALSE
  ELSE LET copyA == SortStrings(a)
           copyB == SortStrings(b)
       IN \A index \in DOMAIN copyA : copyA[index] = copyB[index]

\* any(a, b): some element of b is present in a
any(a, b) ==
  LET source == sliceToSet(a) IN \E i \in DOMAIN b : b[i] \in source

EvalRet(v) == [panic |-> FALSE, value |-> v]
EvalPanic == [panic |-> TRUE, value |-> FALSE]

eval(ruleArgs, params) ==
  CASE params.OperatorName = "IN" ->
         EvalRet(includes(ruleArgs, params.Args))
    [] params.OperatorName = "NOT_IN" ->
         EvalRet(~includes(ruleArgs, params.Args))
    [] params.OperatorName = "EQUAL" ->
         EvalRet(equal(ruleArgs, params.Args))
    [] params.OperatorName = "NOT_EQUAL" ->
         EvalRet(~equal(ruleArgs, params.Args))
    [] params.OperatorName = "EXISTS" -> EvalRet(Len(ruleArgs) > 0)
    [] params.OperatorName = "DOES_NOT_EXIST" -> EvalRet(Len(ruleArgs) = 0)
    [] params.OperatorName = "ANY" -> EvalRet(any(ruleArgs, params.Args))
    [] OTHER -> EvalPanic

\* rbac.PolicyRule: the five attributes the filters look at
Attrs == {"APIGroups", "Resources", "ResourceNames", "Verbs",
          "NonResourceURLs"}
RuleAttrValues == {<<>>, <<"a">>}
Rules == [Attrs -> RuleAttrValues]

\* APIGroupFilter, ResourcesFilter, ResourceNamesFilter, VerbsFilter and
\* NonResourceURLsFilter: the attribute they read, and their Params
AttributeFilter(attr, params) == [attr |-> attr, Params |-> params]
FilterPool ==
  {AttributeFilter(attr, FilterParams(<<"a">>, o)) :
     attr \in Attrs, o \in {"IN", "NOT_IN", "EXISTS"}}
FilterLists == SeqsUpTo(FilterPool, MaxFilters)

\* f.Filter(rule): the rule when eval holds of the concerned attribute, nil
\* otherwise
FilterPasses(f, rule) == eval(rule[f.attr], f.Params).value

RunRet(m, n) == [matched |-> m, evaluated |-> n]

\* variant: the rule is returned as soon as one filter passes
RECURSIVE RunFromAny(_, _, _)
RunFromAny(filters, rule, k) ==
  IF k > Len(filters) THEN RunRet(FALSE, Len(filters))
  ELSE IF FilterPasses(filters[k], rule) THEN RunRet(TRUE, k)
  ELSE RunFromAny(filters, rule, k + 1)

RuleFilterRunAny(filters, rule) ==
  IF Len(filters) = 0 THEN RunRet(TRUE, 0)
  ELSE RunFromAny(filters, rule, 1)

\* the loop of RuleFilter.Run from the k-th filter on
RECURSIVE RunFrom(_, _, _)
RunFrom(filters, rule, k) ==
  IF k > Len(filters) THEN RunRet(TRUE, Len(filters))
  ELSE IF FilterPasses(filters[k], rule)
  THEN RunFrom(filters, rule, k + 1)
  ELSE RunRet(FALSE, k)

\* RuleFilter.Run(rule) for a non-nil rule: whether the rule is returned,
\* and how many filters were evaluated
RuleFilterRun(filters, rule) ==
  IF Len(filters) = 0 THEN RunRet(TRUE, 0)
  ELSE RunFrom(filters, rule, 1)

\* a call of eval
Eval ==
  /\ qpc = "idle"
  /\ \E ruleArgs \in ArgLists, args \in ArgLists,
        o \in Operators \cup {OtherOperator} :
       /\ qRuleArgs' = ruleArgs
       /\ qParams' = FilterParams(args, o)
       /\ qEval' = eval(ruleArgs, FilterParams(args, o))
  /\ qpc' = "evaluated"
  /\ UNCHANGED <<qRule, qFilters, qRun>>
  /\ UNCHANGED <<extractVars, filterVars, runVars, validatorVars>>

\* a call of RuleFilter.Run, as FilterRules makes it for each rule
Run ==
  /\ qpc = "idle"
  /\ \E rule \in Rules, filters \in FilterLists :
       /\ qRule' = rule
       /\ qFilters' = filters
       /\ qRun' = RuleFilterRun(filters, rule)
  /\ qpc' = "ran"
  /\ UNCHANGED <<qRuleArgs, qParams, qEval>>
  /\ UNCHANGED <<extractVars, filterVars, runVars, validatorVars>>

(***************************************************************************)
(* Validators: am0015 csv_deployments (getLatestBundle, CSVDeployment.Run) *)
(* and am0003 operator_name (OperatorName.Run)                             *)
(***************************************************************************)
\* validator.Result as the Base builds it
Success == [status |-> "Success", msgs |-> <<>>]
Fail(msgs) == [status |-> "Failure", msgs |-> msgs]
Error(err) == [status |-> "Error", msgs |-> <<>>]
\* a run-time panic of Run: no Result is returned
Panicked == [status |-> "panic", msgs |-> <<>>]

\* the version string of a CSV: a semantic version major.minor.patch with
\* or without a pre-release part, or some other string
SemVer(major, minor, patch, pre) ==
  [semver |-> TRUE, major |-> major, minor |-> minor, patch |-> patch,
   pre |-> pre]
NotSemVer ==
  [semver |-> FALSE, major |-> 0, minor |-> 0, patch |-> 0, pre |-> FALSE]
RawVersions ==
  {SemVer(1, 0, 0, FALSE), SemVer(1, 2, 0, FALSE), SemVer(1, 2, 0, TRUE),
   NotSemVer}

\* a bundle as CSVDeployment.Run reads it: whether ClusterServiceVersion()
\* and csv.GetVersion() succeed, the version, whether csv.Spec decodes, and
\* the reasons the linter gives for its deployments
BrokenBundle ==
  [csvOk |-> FALSE, versionOk |-> FALSE, version |-> NotSemVer,
   specOk |-> FALSE, reasons |-> <<>>]
ReasonLists == {<<>>, <<<<"deployment lint reason">>>>}
DeploymentBundles ==
  {BrokenBundle} \cup
  [csvOk : {TRUE}, versionOk : {TRUE}, version : RawVersions,
   specOk : BOOLEAN, reasons : ReasonLists] \cup
  [csvOk : {TRUE}, versionOk : {FALSE}, version : {NotSemVer},
   specOk : BOOLEAN, reasons : ReasonLists]
BundleLists == SeqsUpTo(DeploymentBundles, MaxBundleList)

ErrReadCSV == [kind |-> "bundle.ClusterServiceVersion failed", unit |-> 0]
ErrReadVersion == [kind |-> "csv.GetVersion failed", unit |-> 0]

\* getVersion: fmt.Sprintf("v%s", version) of the CSV's version
getVersion(bundle) ==
  IF ~bundle.csvOk THEN [version |-> <<"v", NotSemVer>>, err |-> ErrReadCSV]
  ELSE IF ~bundle.versionOk
  THEN [version |-> <<"v", NotSemVer>>, err |-> ErrReadVersion]
  ELSE [version |-> <<"v", bundle.version>>, err |-> NoErr]

\* semver.IsValid
semverIsValid(v) == v[1] = "v" /\ v[2].semver

\* the comparison of two numbers
compareInt(x, y) == IF x = y THEN 0 ELSE IF x < y THEN -1 ELSE 1

\* semver.Compare: an invalid version is less than a valid one and equal to
\* another invalid one; a pre-release is less than its release
semverCompare(v, w) ==
  IF ~semverIsValid(v) /\ ~semverIsValid(w) THEN 0
  ELSE IF ~semverIsValid(v) THEN -1
  ELSE IF ~semverIsValid(w) THEN 1
  ELSE IF v[2].major # w[2].major THEN compareInt(v[2].major, w[2].major)
  ELSE IF v[2].minor # w[2].minor THEN compareInt(v[2].minor, w[2].minor)
  ELSE IF v[2].patch # w[2].patch THEN compareInt(v[2].patch, w[2].patch)
  ELSE IF v[2].pre = w[2].pre THEN 0
  ELSE IF v[2].pre THEN -1
  ELSE 1

LatestBundle(i) == [kind |-> "bundle", index |-> i, err |-> NoErr]
LatestError(e) == [kind |-> "error", index |-> 0, err |-> e]
\* latest := bundles[0] of an empty slice: index out of range
LatestPanic == [kind |-> "panic", index |-> 0, err |-> NoErr]

\* variant: the bundle is taken when it compares less
RECURSIVE LatestFromLess(_, _, _)
LatestFromLess(bundles, k, latest) ==
  IF k > Len(bundles) THEN LatestBundle(latest)
  ELSE LET currVersion == getVersion(bundles[k])
           currLatestVersion == getVersion(bundles[latest])
       IN IF currVersion.err # NoErr THEN LatestError(currVersion.err)
          ELSE IF currLatestVersion.err # NoErr
          THEN LatestError(currLatestVersion.err)
          ELSE LatestFromLess(bundles, k + 1,
                 IF semverCompare(currVersion.version,
                                  currLatestVersion.version) = -1
                 THEN k ELSE latest)

getLatestBundleLess(bundles) ==
  IF Len(bundles) = 1 THEN LatestBundle(1)
  ELSE IF Len(bundles) = 0 THEN LatestPanic
  ELSE LatestFromLess(bundles, 2, 1)

\* the loop of getLatestBundle from the k-th bundle on
RECURSIVE LatestFrom(_, _, _)
LatestFrom(bundles, k, latest) ==
  IF k > Len(bundles) THEN LatestBundle(latest)
  ELSE LET currVersion == getVersion(bundles[k])
           currLatestVersion == getVersion(bundles[latest])
       IN IF currVersion.err # NoErr THEN LatestError(currVersion.err)
          ELSE IF currLatestVersion.err # NoErr
          THEN LatestError(currLatestVersion.err)
          ELSE LatestFrom(bundles, k + 1,
                 IF semverCompare(currVersion.version,
                                  currLatestVersion.version) = 1
                 THEN k ELSE latest)

getLatestBundle(bundles) ==
  IF Len(bundles) = 1 THEN LatestBundle(1)
  ELSE IF Len(bundles) = 0 THEN LatestPanic
  ELSE LatestFrom(bundles, 2, 1)

\* a call of getLatestBundle
GetLatestBundle ==
  /\ vpc = "idle"
  /\ \E bundles \in BundleLists :
       /\ vBundles' = bundles
       /\ vLatest' = getLatestBundle(bundles)
  /\ vpc' = "selected"
  /\ UNCHANGED <<vOperator, vResult>>
  /\ UNCHANGED <<extractVars, filterVars, runVars, ruleVars>>

\* variant: Fail is returned whatever the number of messages
CSVDeploymentRunAlwaysFail(bundles) ==
  LET sel == getLatestBundle(bundles) IN
  IF sel.kind # "bundle" THEN Panicked
  ELSE LET bundle == bundles[sel.index] IN
       IF ~bundle.csvOk THEN Panicked
       ELSE Fail(bundle.reasons)

\* CSVDeployment.Run.  The Results of c.Fail and c.Error after the three
\* error checks are not returned, and Run goes on: with the nil bundle left
\* by a failed getLatestBundle and with the nil csv left by a failed
\* ClusterServiceVersion() the next statement dereferences nil; after a
\* failed decode the deployments found in spec are linted.
CSVDeploymentRun(bundles) ==
  LET sel == getLatestBundle(bundles) IN
  IF sel.kind # "bundle" THEN Panicked
  ELSE LET bundle == bundles[sel.index]
           msgs == bundle.reasons
       IN IF ~bundle.csvOk THEN Panicked
          ELSE IF Len(msgs) > 0 THEN Fail(msgs)
          ELSE Success

\* a call of CSVDeployment.Run
RunCSVDeployment ==
  /\ vpc = "idle"
  /\ \E bundles \in BundleLists :
       /\ vBundles' = bundles
       /\ vLatest' = getLatestBundle(bundles)
       /\ vResult' = CSVDeploymentRun(bundles)
  /\ vpc' = "deployments"
  /\ UNCHANGED vOperator
  /\ UNCHANGED <<extractVars, filterVars, runVars, ruleVars>>

\* csv.Name and csv.Replaces, as lexemes: an operator name, ".", a version
CsvNames ==
  {<<"op", ".", "1.0.0">>, <<"op", ".", "v1.0.0">>, <<"other", ".", "1.0.0">>,
   <<"op">>, <<"op", ".", "bad">>}
CsvReplaces == {<<>>, <<"op", ".", "1.0.0">>, <<"other", ".", "1.0.0">>}
OperatorNames == {"op"}
PackageNames == {"op", "other"}

\* a bundle as newBundleData reads it: whether the reads succeed, and the
\* three values read
UnreadableBundle ==
  [dataOk |-> FALSE, csvName |-> <<>>, csvReplaces |-> <<>>,
   pkgNameAnnotation |-> ""]
OperatorBundles ==
  {UnreadableBundle} \cup
  [dataOk : {TRUE}, csvName : CsvNames, csvReplaces : CsvReplaces,
   pkgNameAnnotation : PackageNames]
OperatorBundleLists == SeqsUpTo(OperatorBundles, MaxOperatorBundles)

ErrBundleData == [kind |-> "could not read bundle data", unit |-> 0]

\* isValidSemver: "v" is prepended when missing, then semver.IsValid
isValidSemver(version) == version \in {<<"1.0.0">>, <<"v1.0.0">>}

\* checkCSVNameOrReplaces: the message, empty when the field is fine
checkCSVNameOrReplaces(csvField, operatorName) ==
  LET parts == SplitN2(csvField, ".") IN
  IF Len(parts) # 2 THEN <<"could not split in two parts">>
  ELSE IF parts[1] # <<operatorName>> THEN <<"invalid operatorName">>
  ELSE IF ~isValidSemver(parts[2]) THEN <<"invalid semver">>
  ELSE <<>>

\* the messages OperatorName.Run appends for one bundle
BundleMsgs(bundleData, operatorName) ==
  LET nameMsg == checkCSVNameOrReplaces(bundleData.csvName, operatorName)
      replMsg == IF bundleData.csvReplaces # <<>>
                 THEN checkCSVNameOrReplaces(bundleData.csvReplaces,
                                             operatorName)
                 ELSE <<>>
  IN (IF nameMsg # <<>> THEN <<<<"failed validation on csv.Name">> \o nameMsg>>
      ELSE <<>>)
     \o (IF replMsg # <<>>
         THEN <<<<"failed validation on csv.Replaces">> \o replMsg>>
         ELSE <<>>)
     \o (IF bundleData.pkgNameAnnotation # operatorName
         THEN <<<<"package annotation does not match operatorName">>>>
         ELSE <<>>)

\* strings.Join(msgs, ", "): one string
RECURSIVE Join(_)
Join(msgs) ==
  IF msgs = <<>> THEN <<>>
  ELSE IF Len(msgs) = 1 THEN Head(msgs)
  ELSE Head(msgs) \o <<", ">> \o Join(Tail(msgs))

\* the loop of OperatorName.Run from the k-th bundle on
RECURSIVE OperatorNameFrom(_, _, _, _)
OperatorNameFrom(operatorName, bundles, k, failureMsgs) ==
  IF k > Len(bundles)
  THEN IF Len(failureMsgs) > 0 THEN Fail(<<Join(failureMsgs)>>) ELSE Success
  ELSE IF ~bundles[k].dataOk THEN Error(ErrBundleData)
  ELSE OperatorNameFrom(operatorName, bundles, k + 1,
                        failureMsgs \o BundleMsgs(bundles[k], operatorName))

OperatorNameRun(mb) == OperatorNameFrom(mb.OperatorName, mb.Bundles, 1, <<>>)

\* a call of OperatorName.Run
RunOperatorName ==
  /\ vpc = "idle"
  /\ \E operatorName \in OperatorNames, bundles \in OperatorBundleLists :
       LET mb == [OperatorName |-> operatorName, Bundles |-> bundles] IN
       /\ vOperator' = mb
       /\ vResult' = OperatorNameRun(mb)
  /\ vpc' = "operatorName"
  /\ UNCHANGED <<vBundles, vLatest>>
  /\ UNCHANGED <<extractVars, filterVars, runVars, ruleVars>>

(***************************************************************************)
(* Initial state and the specifications                                    *)
(***************************************************************************)
ExtractInit ==
  /\ pc = "idle"
  /\ op = "none"
  /\ indexImage = <<>>
  /\ bundleImages = <<>>
  /\ spawned = 0
  /\ unit = <<>>
  /\ res = <<>>
  /\ gErr = NoErr
  /\ cancelled = FALSE
  /\ ret = NoRet
  /\ indexCalls = 0
  /\ fetchCalls = 0
  /\ writeLog = <<>>

FilterInit ==
  /\ fpc = "idle"
  /\ fDisabled = EmptyStr
  /\ fEnabled = EmptyStr
  /\ fStages = EmptyStr
  /\ fRet = FRet(NilFilter, NoErr)

RunInit ==
  /\ rpc = "idle"
  /\ runStarted = FALSE
  /\ selected = {}
  /\ launched = {}
  /\ results = <<>>
  /\ tableFailed = FALSE
  /\ cleanUps = 0
  /\ cleanUpFailed = FALSE
  /\ outcome = NoErr

RuleInit ==
  /\ qpc = "idle"
  /\ qRuleArgs = <<>>
  /\ qParams = FilterParams(<<>>, "EXISTS")
  /\ qEval = EvalRet(FALSE)
  /\ qRule = [attr \in Attrs |-> <<>>]
  /\ qFilters = <<>>
  /\ qRun = RunRet(FALSE, 0)

ValidatorInit ==
  /\ vpc = "idle"
  /\ vBundles = <<>>
  /\ vLatest = [kind |-> "none", index |-> 0, err |-> NoErr]
  /\ vOperator = [OperatorName |-> "", Bundles |-> <<>>]
  /\ vResult = [status |-> "none", msgs |-> <<>>]

Init == ExtractInit /\ FilterInit /\ RunInit /\ RuleInit /\ ValidatorInit

\* the extractor
Next ==
  \/ ExtractAllBundles
  \/ ExtractBundles
  \/ Spawn
  \/ \E i \in DOMAIN unit : UnitDone(i)
  \/ Wait

Spec == Init /\ [][Next]_vars

\* generateFilter
FilterNext == GenerateFilter

FilterSpec == Init /\ [][FilterNext]_vars

\* the validate command
RunNext ==
  \/ RunStart
  \/ \E v \in Registered : RecvResult(v)
  \/ RunFinish

RunSpec == Init /\ [][RunNext]_vars

\* the rule-filter DSL
RuleNext ==
  \/ Eval
  \/ Run

RuleSpec == Init /\ [][RuleNext]_vars

\* the validators
ValidatorNext ==
  \/ GetLatestBundle
  \/ RunCSVDeployment
  \/ RunOperatorName

ValidatorSpec == Init /\ [][ValidatorNext]_vars

(***************************************************************************)
(* Properties of the extractor (checked under Spec)                        *)
(***************************************************************************)
\* the call went through extractBundlesConcurrent and returned from it
\* (the context is cancelled only on that return)
ReturnedFromConcurrent == pc = "returned" /\ cancelled

AllFetchesOk == \A i \in DOMAIN unit : unit[i] = "ok"
SomeFetchFailed == \E i \in DOMAIN unit : unit[i] = "err"

\* C1: when every fetch succeeds, whatever the interleaving and completion
\* order, the returned sequence is as long as the input and its i-th element
\* is the bundle fetched for the i-th reference.
OutputIndexAligned ==
  (ReturnedFromConcurrent /\ AllFetchesOk) =>
     /\ ret.err = NoErr
     /\ ~ret.bundles.isNil
     /\ Len(ret.bundles.items) = Len(bundleImages)
     /\ \A i \in 1..Len(bundleImages) :
          ret.bundles.items[i] = BundleOf(bundleImages[i])

\* three fetches of differing references succeeded, the last one first
OutputIndexAlignedWitness ==
  /\ ReturnedFromConcurrent /\ AllFetchesOk
  /\ Len(bundleImages) = 3
  /\ bundleImages[1] # bundleImages[3]
  /\ Len(writeLog) = 3
  /\ writeLog[1].unit = 3

\* C2: when at least one fetch fails, the call returns an error and the nil
\* bundle set, never the bundles that did succeed.
NoPartialResult ==
  (ReturnedFromConcurrent /\ SomeFetchFailed) =>
     /\ ret.err # NoErr
     /\ ret.bundles = NilSlice

\* one of three fetches failed, the two others succeeded
NoPartialResultWitness ==
  /\ ReturnedFromConcurrent
  /\ Len(bundleImages) = 3
  /\ unit[2] = "err"
  /\ unit[1] = "ok" /\ unit[3] = "ok"

\* C3: once a fetch unit has failed while a sibling is still in flight, the
\* shared context is cancelled, so that the sibling can observe it.
CancelOnFirstError ==
  (pc = "fetching" /\ SomeFetchFailed
     /\ \E j \in DOMAIN unit : unit[j] = "running") => cancelled

\* C4: a non-empty index-image reference that carries no tag (no ':' beyond
\* the registry path) yields an empty bundle list and no error, without any
\* call of the index reader or of a bundle fetch.
TaglessYieldsEmpty ==
  (op # "none" /\ WellFormedTagless(indexImage)) =>
     /\ indexCalls = 0
     /\ fetchCalls = 0
     /\ pc = "returned"
     /\ ret.err = NoErr
     /\ Len(ret.bundles.items) = 0

\* C5: the empty index-image reference yields an error, not the tagless
\* skip, before any call of the index reader or of a bundle fetch.
EmptyImageRejected ==
  (pc = "returned" /\ indexImage = <<>>) =>
     /\ ret.err # NoErr
     /\ ret.err # ErrTaglessImage
     /\ indexCalls = 0
     /\ fetchCalls = 0

EmptyImageRejectedWitness ==
  /\ pc = "returned"
  /\ indexImage = <<>>
  /\ op = "ExtractAllBundles"
  /\ ret.set

\* C6: no two fetch units write the same slot of the output slice; unit i
\* writes slot i only, and at most once.
DisjointSlots ==
  /\ \A k \in DOMAIN writeLog : writeLog[k].slots = {writeLog[k].unit}
  /\ \A k1, k2 \in DOMAIN writeLog :
       k1 # k2 => /\ writeLog[k1].unit # writeLog[k2].unit
                  /\ writeLog[k1].slots \cap writeLog[k2].slots = {}

\* three units have written, not in index order
DisjointSlotsWitness ==
  /\ Len(writeLog) = 3
  /\ writeLog[1].unit = 2
  /\ writeLog[2].unit = 3

(***************************************************************************)
(* Properties of generateFilter (checked under FilterSpec)                 *)
(***************************************************************************)
WellFormedArgs ==
  /\ fDisabled = EmptyStr \/ parseCodeList(fDisabled).ok
  /\ fEnabled = EmptyStr \/ parseCodeList(fEnabled).ok
  /\ fStages = EmptyStr \/ parseStageList(fStages).ok

\* C7: with an enable-list supplied, the disable-list has no effect: the
\* filter accepts the validators it accepts for an empty disable-list, and
\* only validators whose code is in the enable-list.
EnableOverridesDisable ==
  (fpc = "done" /\ WellFormedArgs /\ fEnabled # EmptyStr) =>
     /\ fRet.err = NoErr
     /\ \A v \in Registered :
          /\ Accepts(fRet.filter, v) =
               Accepts(generateFilter(EmptyStr, fEnabled, fStages).filter, v)
          /\ Accepts(fRet.filter, v) =>
               \E i \in DOMAIN fEnabled : ParseCode(fEnabled[i]).code = v.code

\* both lists supplied, and they overlap
EnableOverridesDisableWitness ==
  /\ fpc = "done"
  /\ fDisabled = <<"AM0001">>
  /\ fEnabled = <<"AM0001", "AM0002">>
  /\ fStages = <<"post-release">>
  /\ fRet.err = NoErr

\* the code-based filter of the call: what the call yields without stages
CodeBasedFilter ==
  IF fDisabled = EmptyStr /\ fEnabled = EmptyStr THEN NoFilter
  ELSE generateFilter(fDisabled, fEnabled, EmptyStr).filter

\* C8: with a stage-list supplied, the filter is And(code-based filter,
\* FilterStages(stages)): it accepts a validator only if its stage is listed
\* and the code-based filter accepts it; with none of the three lists
\* supplied, the nil filter is returned.
StagesIntersected ==
  /\ (fpc = "done" /\ fStages # EmptyStr /\ fRet.err = NoErr) =>
       /\ fRet.filter =
            And(CodeBasedFilter, FilterStages(parseStageList(fStages).stages))
       /\ \A v \in Registered :
            Accepts(fRet.filter, v) <=>
              /\ \E i \in DOMAIN fStages : fStages[i] = v.stage
              /\ Accepts(CodeBasedFilter, v)
  /\ (fpc = "done" /\ fDisabled = EmptyStr /\ fEnabled = EmptyStr
        /\ fStages = EmptyStr) => fRet = FRet(NilFilter, NoErr)

\* a stage-list together with a disable-list
StagesIntersectedWitness ==
  /\ fpc = "done"
  /\ fStages = <<"pre-release">>
  /\ fDisabled = <<"AM0001">>
  /\ fEnabled = EmptyStr
  /\ fRet.err = NoErr

(***************************************************************************)
(* Properties of the validate command (checked under RunSpec)              *)
(***************************************************************************)
AllSuccess == \A i \in DOMAIN results : results[i].status = "Success"
AnyError == \E i \in DOMAIN results : results[i].status = "Error"
AnyFailure == \E i \in DOMAIN results : results[i].status = "Failure"

\* the outcome the results call for
ResultOutcome ==
  IF AllSuccess THEN NoErr
  ELSE IF AnyError THEN ErrValidationErrored
  ELSE ErrValidationFailed

\* C9 as stated: once the results are collected, the outcome is nil when
\* every Result is Success, ErrValidationErrored when a Result is an Error,
\* and ErrValidationFailed when a Result is a Failure and none an Error.
OutcomeFromResultsOnly ==
  (rpc = "done" /\ runStarted) => outcome = ResultOutcome

\* C9 amended: the same, provided table initialisation and CleanUp succeed;
\* otherwise the outcome is the error of the step that failed.
OutcomeFromResults ==
  /\ ErrValidationErrored # ErrValidationFailed
  /\ (rpc = "done" /\ runStarted) =>
       outcome = IF tableFailed THEN ErrInitTable
                 ELSE IF cleanUpFailed THEN ErrCleanUp
                 ELSE ResultOutcome

\* an Error and a Failure were collected and the late steps succeeded
OutcomeFromResultsWitness ==
  /\ rpc = "done" /\ runStarted
  /\ ~tableFailed /\ ~cleanUpFailed
  /\ AnyError /\ AnyFailure
  /\ outcome = ErrValidationErrored

\* C10: on every path on which runner.Run was started, CleanUp is invoked
\* exactly once, only after the stream is drained, and its error is
\* returned.
CleanUpExactlyOnce ==
  /\ (rpc = "done" /\ runStarted) => cleanUps = 1
  /\ cleanUps > 0 => launched = {} /\ Len(results) = Cardinality(selected)
  /\ cleanUpFailed => outcome = ErrCleanUp
  /\ cleanUps <= 1

(***************************************************************************)
(* Properties of the rule-filter DSL (checked under RuleSpec)              *)
(***************************************************************************)
\* number of occurrences of x in the sequence s
Count(x, s) == Cardinality({i \in DOMAIN s : s[i] = x})

SameSet(a, b) == {a[i] : i \in DOMAIN a} = {b[i] : i \in DOMAIN b}
SameMultiset(a, b) == \A x \in Items : Count(x, a) = Count(x, b)

\* C11 as stated: EQUAL holds exactly when ruleArgs and Args are equal as
\* sets, whatever the order and the duplicates; NOT_EQUAL is its negation.
EqualAsSets ==
  /\ (qpc = "evaluated" /\ qParams.OperatorName = "EQUAL") =>
       qEval = EvalRet(SameSet(qRuleArgs, qParams.Args))
  /\ (qpc = "evaluated" /\ qParams.OperatorName = "NOT_EQUAL") =>
       qEval = EvalRet(~SameSet(qRuleArgs, qParams.Args))

\* C11 amended: EQUAL holds exactly when ruleArgs and Args hold the same
\* strings the same number of times, whatever the order; NOT_EQUAL is its
\* negation.
EqualAsMultisets ==
  /\ (qpc = "evaluated" /\ qParams.OperatorName = "EQUAL") =>
       qEval = EvalRet(SameMultiset(qRuleArgs, qParams.Args))
  /\ (qpc = "evaluated" /\ qParams.OperatorName = "NOT_EQUAL") =>
       qEval = EvalRet(~SameMultiset(qRuleArgs, qParams.Args))

\* EQUAL of the same strings in another order
EqualAsMultisetsWitness ==
  /\ qpc = "evaluated"
  /\ qParams.OperatorName = "EQUAL"
  /\ qRuleArgs = <<"a", "b">>
  /\ qParams.Args = <<"b", "a">>
  /\ qEval = EvalRet(TRUE)

\* C12: IN holds exactly when every element of Args is present in ruleArgs
\* (superset, not intersection; so it holds for empty Args); NOT_IN is its
\* negation.
InIsSuperset ==
  /\ (qpc = "evaluated" /\ qParams.OperatorName = "IN") =>
       qEval = EvalRet({qParams.Args[i] : i \in DOMAIN qParams.Args}
                          \subseteq {qRuleArgs[j] : j \in DOMAIN qRuleArgs})
  /\ (qpc = "evaluated" /\ qParams.OperatorName = "NOT_IN") =>
       qEval = EvalRet(~({qParams.Args[i] : i \in DOMAIN qParams.Args}
                           \subseteq {qRuleArgs[j] : j \in DOMAIN qRuleArgs}))

\* IN of a rule that intersects Args without holding all of it
InIsSupersetWitness ==
  /\ qpc = "evaluated"
  /\ qParams.OperatorName = "IN"
  /\ qRuleArgs = <<"a">>
  /\ qParams.Args = <<"a", "b">>
  /\ qEval = EvalRet(FALSE)

\* C13: Run returns the statement exactly when every filter of Filters
\* passes on it; the filters are evaluated in order up to the first that
\* does not pass and none after it; with no Filters every statement is
\* returned.
RunIsShortCircuitAnd ==
  qpc = "ran" =>
    LET failing == {k \in DOMAIN qFilters : ~FilterPasses(qFilters[k], qRule)}
    IN /\ qRun.matched <=> failing = {}
       /\ qRun.evaluated = IF failing = {} THEN Len(qFilters)
                           ELSE Min(failing)
       /\ qFilters = <<>> => qRun.matched

\* the first of two filters does not pass, the second would
RunIsShortCircuitAndWitness ==
  /\ qpc = "ran"
  /\ Len(qFilters) = 2
  /\ ~FilterPasses(qFilters[1], qRule)
  /\ FilterPasses(qFilters[2], qRule)
  /\ qRun = RunRet(FALSE, 1)

(***************************************************************************)
(* Properties of the validators (checked under ValidatorSpec)              *)
(***************************************************************************)
AllVersionsReadable ==
  \A i \in DOMAIN vBundles : getVersion(vBundles[i]).err = NoErr
AllVersionsSemVer ==
  \A i \in DOMAIN vBundles : vBundles[i].version.semver

\* precedence of semantic versions, as a number
Precedence(r) ==
  r.major * 1000 + r.minor * 100 + r.patch * 10 + (IF r.pre THEN 0 ELSE 1)

\* C14: of two or more bundles with readable versions, in any order, the
\* selected bundle has a version greater than or equal to the version of
\* every bundle of the list.
LatestIsGreatest ==
  (vpc = "selected" /\ Len(vBundles) >= 2 /\ AllVersionsReadable) =>
     /\ vLatest.kind = "bundle"
     /\ vLatest.index \in DOMAIN vBundles
     /\ \A i \in DOMAIN vBundles :
          semverCompare(getVersion(vBundles[vLatest.index]).version,
                        getVersion(vBundles[i]).version) >= 0
     /\ AllVersionsSemVer =>
          \A i \in DOMAIN vBundles :
            Precedence(vBundles[vLatest.index].version)
              >= Precedence(vBundles[i].version)

\* 1.2.0 comes first, 1.0.0 second, and 1.2.0 is selected
LatestIsGreatestWitness ==
  /\ vpc = "selected"
  /\ Len(vBundles) = 2
  /\ AllVersionsReadable
  /\ vBundles[1].version = SemVer(1, 2, 0, FALSE)
  /\ vBundles[2].version = SemVer(1, 0, 0, FALSE)
  /\ vLatest = LatestBundle(1)

\* C17: getLatestBundle is total: for every bundle list, the empty one
\* included, it returns a bundle or an error and never faults.
GetLatestBundleTotal ==
  vpc = "selected" => vLatest.kind \in {"bundle", "error"}

\* C15: a Failure Result returned by OperatorName.Run or CSVDeployment.Run
\* carries at least one message.
FailureHasMessage ==
  (vpc \in {"deployments", "operatorName"} /\ vResult.status = "Failure") =>
     /\ Len(vResult.msgs) >= 1
     /\ \A i \in DOMAIN vResult.msgs : vResult.msgs[i] # <<>>

\* CSVDeployment.Run returned a Failure for a bundle the linter objects to
FailureHasMessageWitness ==
  /\ vpc = "deployments"
  /\ vResult.status = "Failure"
  /\ Len(vBundles) = 2
  /\ Len(vResult.msgs) = 1

\* a step of CSVDeployment.Run returned an error: the selection of the
\* latest bundle, the read of its CSV, or the decoding of its spec
RunStepFailed ==
  \/ vLatest.kind = "error"
  \/ /\ vLatest.kind = "bundle"
     /\ \/ ~vBundles[vLatest.index].csvOk
        \/ ~vBundles[vLatest.index].specOk

\* C16: when the selection of the latest bundle or the reading or decoding
\* of its descriptor returns an error, CSVDeployment.Run returns a Failure
\* or an Error Result and does not go on with the bundle.
ErrorsAreReported ==
  (vpc = "deployments" /\ RunStepFailed) =>
     vResult.status \in {"Failure", "Error"}
====
